---- MODULE Spec2Model ----
(***************************************************************************)
(* A model of deferred-loader-plugin: the LoaderResolver (short name to    *)
(* canonical path bindings), the LoaderRegistry (records of inspected      *)
(* loader paths) and the DeferredLoaderPlugin hooks (before-resolve,       *)
(* after-resolve, emit) of every plugin instance of one webpack build.     *)
(* The registry and the resolver are module-level singletons shared by     *)
(* all plugin instances.                                                   *)
(***************************************************************************)
EXTENDS Integers, Sequences, FiniteSets, TLC

\* ------------------------------------------------------------------------
\* Bounds of the model
\* ------------------------------------------------------------------------

\* declareLoaders calls whose resolver callbacks are still outstanding
MaxPending == 1
\* times one loader calls the callback handed to emitDeferred
MaxSignals == 2

\* ------------------------------------------------------------------------
\* JavaScript values
\* ------------------------------------------------------------------------

Undefined == [type |-> "undefined"]

NoError == "null"

Errors == {"E1", "E2"}

\* a string: its text up to a query part, and the query part ("" or "?...")
Path(file, query) == [type |-> "string", text |-> file, query |-> query]

\* a string without a query part, such as a loader's short name
Str(text) == Path(text, "")

\* the options value given to a plugin instance
Opt(id) == [type |-> "object", id |-> id]

\* the {name, path} object built by resolveLoader
Binding(name, path) == [type |-> "object", name |-> name, path |-> path]

\* property access v.name / v.path: a string has no such property
PropName(v) == IF v.type = "object" THEN v.name ELSE Undefined

PropPath(v) == IF v.type = "object" THEN v.path ELSE Undefined

\* a === b: values of different types are never strictly equal, strings are
\* equal when their characters are
StrictEquals(a, b) == a.type = b.type /\ a = b

\* a plain object used as a map: own keys in insertion order
ObjectKeys(obj) == [k \in 1..Len(obj) |-> obj[k].key]

HasKey(obj, key) == \E k \in 1..Len(obj) : obj[k].key = key

ObjGet(obj, key) ==
  IF HasKey(obj, key)
  THEN obj[CHOOSE k \in 1..Len(obj) : obj[k].key = key].value
  ELSE Undefined

ObjSet(obj, key, value) ==
  IF HasKey(obj, key)
  THEN [k \in 1..Len(obj) |->
          IF obj[k].key = key THEN [key |-> key, value |-> value] ELSE obj[k]]
  ELSE Append(obj, [key |-> key, value |-> value])

\* Array.prototype.filter(f)[0] over a sequence, as a set of matching indices
FirstIndex(S) == CHOOSE k \in S : \A j \in S : k <= j

\* ------------------------------------------------------------------------
\* The build: plugin instances, contexts, loader modules on disk, resolver
\* ------------------------------------------------------------------------

Instances == {"A", "B"}

\* new DeferredLoaderPlugin({loader: ..., options: ...})
Options(inst) ==
  IF inst = "A" THEN [loader |-> Str("foo"), options |-> Opt("optA")]
  ELSE [loader |-> Str("bar"), options |-> Opt("optB")]

Contexts == {"ctx1", "ctx2"}

Compilations == {"comp1", "comp2"}

Files == {"foo.js", "foo_alt.js", "bar.js", "qux.js", "broken.js"}

\* what require(file) yields: a module with or without an emitDeferred and
\* an options function, or an exception
Require(file) ==
  CASE file = "foo.js" ->
         [threw |-> "none", emitDeferred |-> TRUE, options |-> TRUE]
    [] file = "foo_alt.js" ->
         [threw |-> "none", emitDeferred |-> TRUE, options |-> FALSE]
    [] file = "bar.js" ->
         [threw |-> "none", emitDeferred |-> FALSE, options |-> FALSE]
    [] file = "qux.js" ->
         [threw |-> "none", emitDeferred |-> TRUE, options |-> FALSE]
    [] OTHER ->
         [threw |-> "LoadError", emitDeferred |-> FALSE, options |-> FALSE]

\* the canonical paths webpack hands to after-resolve
Paths ==
  {Path(f, "") : f \in Files} \cup {Path("bar.js", "?q")}

\* data.loaders of the modules of the build
ModuleLoaders ==
  { <<>>,
    <<Path("foo.js", ""), Path("bar.js", "")>>,
    <<Path("bar.js", ""), Path("foo.js", "")>>,
    <<Path("foo_alt.js", "")>>,
    <<Path("foo_alt.js", ""), Path("foo.js", "")>>,
    <<Path("bar.js", "?q"), Path("bar.js", "?q")>>,
    <<Path("bar.js", ""), Path("qux.js", "")>>,
    <<Path("qux.js", ""), Path("bar.js", "")>>,
    <<Path("broken.js", ""), Path("bar.js", "")>> }

\* the loader names of the '!'-separated loader chain in data.request of
\* the module the build requires from a context
ModuleRequest(context) ==
  IF context = "ctx1" THEN <<Str("qux")>> ELSE <<Str("foo"), Str("bar")>>

\* this.resolvers.loader.resolve(context, name, callback): the outcome the
\* host's resolver reports to the callback
ResolverResolve(context, name) ==
  CASE name = Str("foo") /\ context = "ctx1" ->
         [error |-> NoError, path |-> Path("foo.js", "")]
    [] name = Str("foo") /\ context = "ctx2" ->
         [error |-> NoError, path |-> Path("foo_alt.js", "")]
    [] name = Str("bar") /\ context = "ctx1" ->
         [error |-> NoError, path |-> Path("bar.js", "")]
    [] name = Str("qux") /\ context = "ctx1" ->
         [error |-> NoError, path |-> Path("qux.js", "")]
    [] name = Str("foo-loader") /\ context = "ctx1" ->
         [error |-> NoError, path |-> Path("foo.js", "")]
    [] OTHER ->
         [error |-> "ModuleNotFound", path |-> Undefined]

Names == {Options(i).loader : i \in Instances}

\* the names handed to declareLoaders by a direct user of LoaderResolver
ResolverBatches ==
  { <<Str("foo")>>,
    <<Str("bar")>>,
    <<Str("foo-loader")>>,
    <<Str("foo"), Str("bar")>>,
    <<Str("bar"), Str("foo")>>,
    <<Str("foo-loader"), Str("foo"), Str("bar")>> }

\* ------------------------------------------------------------------------
\* State
\* ------------------------------------------------------------------------

VARIABLES
  resolverLoaders,   \* LoaderResolver.loaders: path -> binding, insertion order
  registryLoaders,   \* LoaderRegistry.loaders: array of loader records
  declares,          \* declareLoaders calls waiting for resolver callbacks
  emits,             \* per instance, the emit hook running in this build
  optionsCalls,      \* calls made to loader.fnc.options, in order
  phase,             \* "make" while modules are resolved, "emit" afterwards
  compilation,       \* the compilation object of the build being emitted
  lastHook           \* the hook or callback that ran last and what it did

vars ==
  <<resolverLoaders, registryLoaders, declares, emits, optionsCalls, phase,
    compilation, lastHook>>

\* ------------------------------------------------------------------------
\* LoaderResolver
\* ------------------------------------------------------------------------

\* LoaderResolver.prototype.resolveLoaderFromCache
resolveLoaderFromCache(loaders, name) ==
  LET keys == ObjectKeys(loaders)
      hits == {k \in 1..Len(keys) : StrictEquals(ObjGet(loaders, keys[k]), name)}
  IN IF hits = {} THEN Undefined ELSE keys[FirstIndex(hits)]

\* LoaderResolver.prototype.resolveLoader: the promise it returns, either
\* already fulfilled from the cache or waiting for resolver.resolve
resolveLoader(loaders, name) ==
  LET loader == resolveLoaderFromCache(loaders, name)
  IN IF loader # Undefined
     THEN [state |-> "fulfilled", value |-> loader, asked |-> FALSE]
     ELSE [state |-> "waiting", value |-> Undefined, asked |-> TRUE]

\* the callback resolving the promise without looking at the error
resolveCallback_ignoreError(name, error, path) ==
  [state |-> "fulfilled", value |-> Binding(name, path), asked |-> TRUE]

\* the callback given to resolver.resolve: settles the promise
resolveCallback(name, error, path) ==
  IF error # NoError
  THEN [state |-> "rejected", value |-> [type |-> "error", message |-> error],
        asked |-> TRUE]
  ELSE [state |-> "fulfilled", value |-> Binding(name, path), asked |-> TRUE]

\* the then-callback of declareLoaders: store every resolved loader
RECURSIVE storeLoaders(_, _)
storeLoaders(loaders, resolved) ==
  IF resolved = <<>> THEN loaders
  ELSE storeLoaders(ObjSet(loaders, PropPath(Head(resolved).value), Head(resolved).value),
                    Tail(resolved))

\* resolveName reading the name of an empty object for an unbound path
resolveName_lenient(loaders, path) ==
  [threw |-> "none", value |-> PropName(ObjGet(loaders, path))]

\* LoaderResolver.prototype.resolveName
resolveName(loaders, path) ==
  LET entry == ObjGet(loaders, path)
  IN IF entry = Undefined
     THEN [threw |-> "TypeError", value |-> Undefined]
     ELSE [threw |-> "none", value |-> PropName(entry)]

\* LoaderResolver.prototype.resolvePath
resolvePath(loaders, name) ==
  LET keys == ObjectKeys(loaders)
      hits == {k \in 1..Len(keys) : StrictEquals(PropName(keys[k]), name)}
  IN IF hits = {} THEN Undefined ELSE keys[FirstIndex(hits)]

\* LoaderResolver.prototype.normalizePath
normalizePath(path) == [path EXCEPT !.query = ""]

\* LoaderResolver.prototype.loadLoader
loadLoader(path) ==
  LET file == normalizePath(path).text
  IN [threw |-> Require(file).threw,
      module |-> [type |-> "function", file |-> file,
                  emitDeferred |-> Require(file).emitDeferred,
                  options |-> Require(file).options]]

\* LoaderResolver.prototype.declareLoaders up to q.all: one promise per name
declareLoaders(loaders, inst, context, names) ==
  [inst |-> inst, context |-> context, names |-> names,
   promises |-> [k \in 1..Len(names) |-> resolveLoader(loaders, names[k])],
   all |-> "pending"]

\* q.all(promises): rejected by the first rejection, fulfilled once every
\* promise is
qAll(op) ==
  IF op.all # "pending" THEN op
  ELSE IF \E k \in 1..Len(op.promises) : op.promises[k].state = "rejected"
       THEN [op EXCEPT !.all = "rejected"]
       ELSE IF \A k \in 1..Len(op.promises) : op.promises[k].state = "fulfilled"
            THEN [op EXCEPT !.all = "fulfilled"]
            ELSE op

\* a declareLoaders call together with the data of the hook that waits for
\* it: the loader names of data.request
WithData(op, request) ==
  [inst |-> op.inst, context |-> op.context, names |-> op.names,
   promises |-> op.promises, all |-> op.all, request |-> request]

Waiting(op) == {k \in 1..Len(op.promises) : op.promises[k].state = "waiting"}

\* ------------------------------------------------------------------------
\* LoaderRegistry
\* ------------------------------------------------------------------------

\* LoaderRegistry.prototype.allLoaders
allLoaders(loaders) == loaders

\* LoaderRegistry.prototype.filterLoaders, the filter given as the set of
\* records it accepts: the indices of the matching records
filterLoaders(loaders, accepted) ==
  {k \in 1..Len(allLoaders(loaders)) : allLoaders(loaders)[k] \in accepted}

\* getLoaderByPath looking the path up among the names
getLoaderByPath_byName(loaders, path) ==
  LET hits == {k \in 1..Len(loaders) : StrictEquals(loaders[k].name, path)}
  IN IF hits = {} THEN Undefined ELSE loaders[FirstIndex(hits)]

\* LoaderRegistry.prototype.getLoaderByPath
getLoaderByPath(loaders, path) ==
  LET hits == {k \in 1..Len(loaders) : StrictEquals(loaders[k].path, path)}
  IN IF hits = {} THEN Undefined ELSE loaders[FirstIndex(hits)]

\* getLoaderByName returning the first deferred loader whatever its name
getLoaderByName_anyDeferred(loaders, name) ==
  LET hits == {k \in 1..Len(loaders) : loaders[k].isDeferredLoader}
  IN IF hits = {} THEN Undefined ELSE loaders[FirstIndex(hits)]

\* LoaderRegistry.prototype.getLoaderByName
getLoaderByName(loaders, name) ==
  LET hits == {k \in 1..Len(loaders) : StrictEquals(loaders[k].name, name)}
  IN IF hits = {} THEN Undefined ELSE loaders[FirstIndex(hits)]

\* registerLoader keeping deferred loaders only
registerLoader_deferredOnly(loaders, loader) ==
  IF loader.isDeferredLoader THEN Append(loaders, loader) ELSE loaders

\* LoaderRegistry.prototype.registerLoader
registerLoader(loaders, loader) == Append(loaders, loader)

\* ------------------------------------------------------------------------
\* DeferredLoaderPlugin
\* ------------------------------------------------------------------------

Null == [type |-> "null"]

\* the record tryAndParseLoader returns for a deferred loader
DeferredRecord(fnc, path, name, options) ==
  [type |-> "object", isDeferredLoader |-> TRUE, fnc |-> fnc, path |-> path,
   name |-> name, options |-> options]

\* the record tryAndParseLoader returns for any other loader: the
\* properties it does not set read as undefined
CheckedRecord(path) ==
  [type |-> "object", isDeferredLoader |-> FALSE, fnc |-> Undefined,
   path |-> path, name |-> Undefined, options |-> Undefined]

\* tryAndParseLoader taking the loader of the configured name for a deferred
\* loader without looking for its emitDeferred
tryAndParseLoader_byName(inst, resolver, path) ==
  LET loader == loadLoader(path)
      loaderName == resolveName(resolver, path)
  IN IF loader.threw # "none"
     THEN [threw |-> loader.threw, value |-> Null]
     ELSE IF loaderName.threw = "none"
               /\ StrictEquals(Options(inst).loader, loaderName.value)
          THEN [threw |-> "none",
                value |-> DeferredRecord(loader.module, path,
                             loaderName.value, Options(inst).options)]
          ELSE [threw |-> "none", value |-> CheckedRecord(path)]

\* DeferredLoaderPlugin.prototype.tryAndParseLoader
tryAndParseLoader(inst, resolver, path) ==
  LET loader == loadLoader(path)
      loaderName == resolveName(resolver, path)
  IN IF loader.threw # "none"
     THEN [threw |-> loader.threw, value |-> Null]
     ELSE IF loader.module.emitDeferred
          THEN IF loaderName.threw # "none"
               THEN [threw |-> loaderName.threw, value |-> Null]
               ELSE IF ~StrictEquals(Options(inst).loader, loaderName.value)
                    THEN [threw |-> "none", value |-> Null]
                    ELSE [threw |-> "none",
                          value |-> DeferredRecord(loader.module, path,
                                       loaderName.value, Options(inst).options)]
          ELSE [threw |-> "none", value |-> CheckedRecord(path)]

\* the call of loader.fnc.options handing over the plugin's whole options
\* object instead of its options property
callOptions_wholeOptions(calls, loader) ==
  IF loader.isDeferredLoader /\ loader.fnc.options
  THEN Append(calls, [fnc |-> loader.fnc,
                      options |-> [type |-> "object", loader |-> loader.name,
                                   options |-> loader.options]])
  ELSE calls

\* the call of loader.fnc.options in the after-resolve hook
callOptions(calls, loader) ==
  IF loader.isDeferredLoader /\ loader.fnc.options
  THEN Append(calls, [fnc |-> loader.fnc, options |-> loader.options])
  ELSE calls

\* the after-resolve hook: data.loaders.forEach(...) up to done or to the
\* first exception; loaded lists the paths handed to tryAndParseLoader, which
\* requires and inspects the module
RECURSIVE afterResolve(_, _, _, _, _)
afterResolve(inst, resolver, registry, calls, dataLoaders) ==
  IF dataLoaders = <<>>
  THEN [registry |-> registry, calls |-> calls, threw |-> "none",
        done |-> <<NoError>>, loaded |-> <<>>]
  ELSE LET path == Head(dataLoaders)
           parsed == tryAndParseLoader(inst, resolver, path)
           rest == IF parsed.value # Null
                   THEN afterResolve(inst, resolver,
                                     registerLoader(registry, parsed.value),
                                     callOptions(calls, parsed.value),
                                     Tail(dataLoaders))
                   ELSE afterResolve(inst, resolver, registry, calls,
                                     Tail(dataLoaders))
       IN IF getLoaderByPath(registry, path) # Undefined
          THEN afterResolve(inst, resolver, registry, calls, Tail(dataLoaders))
          ELSE IF parsed.threw # "none"
               THEN [registry |-> registry, calls |-> calls,
                     threw |-> parsed.threw, done |-> <<>>,
                     loaded |-> <<path>>]
               ELSE [rest EXCEPT !.loaded = <<path>> \o @]

\* emit resolving its promise without waiting for the callback
emit_eager(inst, registry, object) ==
  LET loader == getLoaderByName(registry, Options(inst).loader)
  IN IF loader = Undefined
     THEN [threw |-> "TypeError", op |-> Null]
     ELSE [threw |-> "none",
           op |-> [inst |-> inst,
                   calls |-> <<[fnc |-> loader.fnc, compilation |-> object,
                                options |-> loader.options]>>,
                   signals |-> <<>>, promise |-> "resolved",
                   done |-> <<NoError>>]]

\* DeferredLoaderPlugin.prototype.emit: the deferred object and the call of
\* emitDeferred, or the exception of reading loader.fnc of undefined
emit(inst, registry, object) ==
  LET loader == getLoaderByName(registry, Options(inst).loader)
  IN IF loader = Undefined
     THEN [threw |-> "TypeError", op |-> Null]
     ELSE [threw |-> "none",
           op |-> [inst |-> inst,
                   calls |-> <<[fnc |-> loader.fnc, compilation |-> object,
                                options |-> loader.options]>>,
                   signals |-> <<>>, promise |-> "pending", done |-> <<>>]]

\* the callback resolving the promise whatever it is given
emitCallback_resolveOnly(op, error) ==
  LET resolved == IF op.promise = "pending"
                  THEN [op EXCEPT !.promise = "resolved",
                                  !.done = Append(@, NoError)]
                  ELSE op
  IN [resolved EXCEPT !.signals = Append(@, error)]

\* the callback reaching done at every signal, as if a settled promise
\* could settle again
emitCallback_settleAgain(op, error) ==
  [op EXCEPT !.promise = IF error # NoError THEN "rejected" ELSE "resolved",
             !.done = Append(@, error),
             !.signals = Append(@, error)]

\* the callback handed to emitDeferred, with the then/catch of the emit
\* hook that follow the settling of the promise
emitCallback(op, error) ==
  LET rejected == IF error # NoError /\ op.promise = "pending"
                  THEN [op EXCEPT !.promise = "rejected", !.done = Append(@, error)]
                  ELSE op
      resolved == IF rejected.promise = "pending"
                  THEN [rejected EXCEPT !.promise = "resolved",
                                        !.done = Append(@, NoError)]
                  ELSE rejected
  IN [resolved EXCEPT !.signals = Append(@, error)]

\* ------------------------------------------------------------------------
\* Hooks and callbacks as actions
\* ------------------------------------------------------------------------

NoHook ==
  [hook |-> "none", inst |-> "none", context |-> "none", loaders |-> <<>>,
   asked |-> <<>>, calls |-> <<>>, done |-> <<>>, threw |-> "none",
   request |-> <<>>, names |-> <<>>, was |-> "none", all |-> "none",
   loaded |-> <<>>]

\* the names declareLoaders passed on to resolver.resolve
Asked(op) ==
  LET RECURSIVE pick(_)
      pick(k) == IF k > Len(op.names) THEN <<>>
                 ELSE IF op.promises[k].asked THEN <<op.names[k]>> \o pick(k + 1)
                      ELSE pick(k + 1)
  IN pick(1)

Init ==
  /\ resolverLoaders = <<>>
  /\ registryLoaders = <<>>
  /\ declares = {}
  /\ emits = [inst \in Instances |-> Null]
  /\ optionsCalls = <<>>
  /\ phase = "make"
  /\ compilation = "none"
  /\ lastHook = NoHook

\* moduleFactory.plugin('before-resolve', ...) of one plugin instance
BeforeResolve(inst, context, request) ==
  LET op == qAll(WithData(declareLoaders(resolverLoaders, inst, context,
                                         <<Options(inst).loader>>), request))
  IN /\ phase = "make"
     /\ Cardinality(declares) < MaxPending
     /\ IF op.all = "fulfilled"
        THEN /\ resolverLoaders' = storeLoaders(resolverLoaders, op.promises)
             /\ declares' = declares
        ELSE /\ resolverLoaders' = resolverLoaders
             /\ declares' = declares \cup {op}
     /\ lastHook' = [NoHook EXCEPT !.hook = "before-resolve", !.inst = inst,
                       !.context = context, !.asked = Asked(op),
                       !.request = request, !.names = op.names,
                       !.all = op.all,
                       !.done = IF op.all = "fulfilled" THEN <<NoError>> ELSE <<>>]
     /\ UNCHANGED <<registryLoaders, emits, optionsCalls, phase, compilation>>

\* the resolver callback storing its own binding at once instead of leaving
\* it to the then-callback of q.all
ResolverCallback_storeEach(op, k) ==
  LET answer == ResolverResolve(op.context, op.names[k])
      settled == qAll([op EXCEPT !.promises[k] =
                         resolveCallback(op.names[k], answer.error, answer.path)])
      first == op.all = "pending" /\ settled.all # "pending"
  IN /\ op \in declares
     /\ k \in Waiting(op)
     /\ resolverLoaders' =
          IF answer.error = NoError
          THEN ObjSet(resolverLoaders, answer.path,
                      Binding(op.names[k], answer.path))
          ELSE resolverLoaders
     /\ declares' = (declares \ {op}) \cup
                      (IF Waiting(settled) = {} THEN {} ELSE {settled})
     /\ lastHook' = [NoHook EXCEPT !.hook = "resolver-callback", !.inst = op.inst,
                       !.context = op.context, !.request = op.request,
                       !.names = op.names, !.was = op.all, !.all = settled.all,
                       !.done = IF ~first THEN <<>>
                                ELSE IF settled.all = "fulfilled" THEN <<NoError>>
                                     ELSE <<answer.error>>]
     /\ UNCHANGED <<registryLoaders, emits, optionsCalls, phase, compilation>>

\* the host's resolver answers one outstanding resolver.resolve call
ResolverCallback(op, k) ==
  LET answer == ResolverResolve(op.context, op.names[k])
      settled == qAll([op EXCEPT !.promises[k] =
                         resolveCallback(op.names[k], answer.error, answer.path)])
      first == op.all = "pending" /\ settled.all # "pending"
  IN /\ op \in declares
     /\ k \in Waiting(op)
     /\ resolverLoaders' =
          IF first /\ settled.all = "fulfilled"
          THEN storeLoaders(resolverLoaders, settled.promises)
          ELSE resolverLoaders
     /\ declares' = (declares \ {op}) \cup
                      (IF Waiting(settled) = {} THEN {} ELSE {settled})
     /\ lastHook' = [NoHook EXCEPT !.hook = "resolver-callback", !.inst = op.inst,
                       !.context = op.context, !.request = op.request,
                       !.names = op.names, !.was = op.all, !.all = settled.all,
                       !.done = IF ~first THEN <<>>
                                ELSE IF settled.all = "fulfilled" THEN <<NoError>>
                                     ELSE <<answer.error>>]
     /\ UNCHANGED <<registryLoaders, emits, optionsCalls, phase, compilation>>

\* moduleFactory.plugin('after-resolve', ...) of one plugin instance
AfterResolve(inst, dataLoaders) ==
  LET result == afterResolve(inst, resolverLoaders, registryLoaders,
                             optionsCalls, dataLoaders)
  IN /\ phase = "make"
     /\ registryLoaders' = result.registry
     /\ optionsCalls' = result.calls
     /\ lastHook' = [NoHook EXCEPT !.hook = "after-resolve", !.inst = inst,
                       !.loaders = dataLoaders, !.done = result.done,
                       !.threw = result.threw, !.loaded = result.loaded]
     /\ UNCHANGED <<resolverLoaders, declares, emits, phase, compilation>>

\* the host leaves the module-resolving phase of a build and creates the
\* compilation object it hands to the emit hooks
Seal(object) ==
  /\ phase = "make"
  /\ declares = {}
  /\ phase' = "emit"
  /\ compilation' = object
  /\ lastHook' = NoHook
  /\ UNCHANGED <<resolverLoaders, registryLoaders, declares, emits, optionsCalls>>

\* compiler.plugin('emit', ...) of one plugin instance
EmitHook(inst) ==
  LET result == emit(inst, registryLoaders, compilation)
  IN /\ phase = "emit"
     /\ emits[inst] = Null
     /\ emits' = IF result.threw = "none"
                 THEN [emits EXCEPT ![inst] = result.op]
                 ELSE emits
     /\ lastHook' = [NoHook EXCEPT !.hook = "emit", !.inst = inst,
                       !.calls = IF result.threw = "none" THEN result.op.calls
                                 ELSE <<>>,
                       !.threw = result.threw]
     /\ UNCHANGED <<resolverLoaders, registryLoaders, declares, optionsCalls,
                    phase, compilation>>

\* a loader's emitDeferred calls the callback it was given
DeferredCallback(inst, error) ==
  /\ emits[inst] # Null
  /\ Len(emits[inst].signals) < MaxSignals
  /\ emits' = [emits EXCEPT ![inst] = emitCallback(@, error)]
  /\ lastHook' = [NoHook EXCEPT !.hook = "emit-callback", !.inst = inst,
                    !.done = SubSeq(emits'[inst].done, Len(emits[inst].done) + 1,
                                    Len(emits'[inst].done))]
  /\ UNCHANGED <<resolverLoaders, registryLoaders, declares, optionsCalls,
                 phase, compilation>>

\* the host starts the next build of a watching compiler: the plugin's
\* registry and resolver stay as they are
Rebuild ==
  /\ phase = "emit"
  /\ phase' = "make"
  /\ compilation' = "none"
  /\ emits' = [inst \in Instances |-> Null]
  /\ lastHook' = NoHook
  /\ UNCHANGED <<resolverLoaders, registryLoaders, declares, optionsCalls>>

Next ==
  \/ \E inst \in Instances, context \in Contexts :
        BeforeResolve(inst, context, ModuleRequest(context))
  \/ \E op \in declares : \E k \in 1..Len(op.names) : ResolverCallback(op, k)
  \/ \E inst \in Instances, dataLoaders \in ModuleLoaders :
        AfterResolve(inst, dataLoaders)
  \/ \E object \in Compilations : Seal(object)
  \/ \E inst \in Instances : EmitHook(inst)
  \/ \E inst \in Instances, error \in Errors \cup {NoError} :
        DeferredCallback(inst, error)
  \/ Rebuild

Spec == Init /\ [][Next]_vars

\* ------------------------------------------------------------------------
\* The LoaderResolver used on its own
\* ------------------------------------------------------------------------

\* loaderResolver.declareLoaders(names, context, resolver)
DeclareLoaders(names, context) ==
  LET op == qAll(WithData(declareLoaders(resolverLoaders, "none", context, names),
                          <<>>))
  IN /\ Cardinality(declares) < MaxPending
     /\ IF op.all = "fulfilled"
        THEN /\ resolverLoaders' = storeLoaders(resolverLoaders, op.promises)
             /\ declares' = declares
        ELSE /\ resolverLoaders' = resolverLoaders
             /\ declares' = declares \cup {op}
     /\ lastHook' = [NoHook EXCEPT !.hook = "declare", !.context = context,
                       !.asked = Asked(op), !.names = op.names, !.all = op.all,
                       !.done = IF op.all = "fulfilled" THEN <<NoError>> ELSE <<>>]
     /\ UNCHANGED <<registryLoaders, emits, optionsCalls, phase, compilation>>

NextResolver ==
  \/ \E names \in ResolverBatches, context \in Contexts :
        DeclareLoaders(names, context)
  \/ \E op \in declares : \E k \in 1..Len(op.names) : ResolverCallback(op, k)

SpecResolver == Init /\ [][NextResolver]_vars

\* ------------------------------------------------------------------------
\* Properties
\* ------------------------------------------------------------------------

\* the names for which a declareLoaders call has succeeded: the resolver
\* holds a binding made for them
Declared(name) ==
  \E k \in 1..Len(resolverLoaders) : PropName(resolverLoaders[k].value) = name

Bound(path) == \E k \in 1..Len(resolverLoaders) : resolverLoaders[k].key = path

Registered(path) == \E k \in 1..Len(registryLoaders) : registryLoaders[k].path = path

Loads(path) == Require([path EXCEPT !.query = ""].text).threw = "none"

Capable(path) == Loads(path) /\ Require([path EXCEPT !.query = ""].text).emitDeferred

InSeq(x, q) == \E k \in 1..Len(q) : q[k] = x

\* C1: once a declareLoaders call containing a name has succeeded, a later
\* before-resolve hook (of any instance, in any context) passes that name
\* to resolver.resolve no more.
C1_RedeclareAsksResolver ==
  [][lastHook'.hook = "before-resolve"
       => \A name \in Names : Declared(name) => ~InSeq(name, lastHook'.asked)]_vars

\* C2: for every name whose declareLoaders call has succeeded, resolvePath
\* returns a bound path and resolveName of that path is the name.
C2_RoundTrip ==
  \A name \in Names :
    Declared(name) =>
      /\ resolvePath(resolverLoaders, name) # Undefined
      /\ resolveName(resolverLoaders, resolvePath(resolverLoaders, name)).value = name

\* C3: when the registry holds no deferred record for an instance's
\* configured name, the emit hook of that instance calls no emitDeferred
\* and raises no error.
C3_EmitWithoutLoader ==
  (/\ lastHook.hook = "emit"
   /\ \A k \in 1..Len(registryLoaders) :
        registryLoaders[k].name # Options(lastHook.inst).loader)
    => lastHook.calls = <<>> /\ lastHook.threw = "none"

\* C4: the emitDeferred of the loader named "foo" is called only by the
\* instance configured for "foo"; the after-resolve hook of the instance
\* configured for "bar" does not fail on a chain of loadable, bound loaders,
\* and its emit hook does not fail either.
C4_OnlyOwnInstanceEmits ==
  /\ \A inst \in Instances :
       emits[inst] # Null =>
         \A k \in 1..Len(emits[inst].calls) :
           emits[inst].calls[k].fnc.file \in {"foo.js", "foo_alt.js"}
             => Options(inst).loader = Str("foo")
  /\ (/\ lastHook.hook = "after-resolve"
      /\ lastHook.inst = "B"
      /\ \A k \in 1..Len(lastHook.loaders) :
           /\ Loads(lastHook.loaders[k])
           /\ Capable(lastHook.loaders[k]) => Bound(lastHook.loaders[k]))
       => lastHook.threw = "none" /\ lastHook.done = <<NoError>>
  /\ (lastHook.hook = "emit" /\ lastHook.inst = "B") => lastHook.threw = "none"

\* a deferred loader whose name is no instance's configured loader
Unconfigured(path) ==
  /\ Capable(path)
  /\ \A inst \in Instances :
       resolveName(resolverLoaders, path).value # Options(inst).loader

\* C5: an after-resolve hook whose data.loaders are loadable and hold a
\* deferred loader whose name no instance is configured for calls
\* done(null, data) and registers no record for that loader.
C5_UnconfiguredSkipped ==
  (/\ lastHook.hook = "after-resolve"
   /\ \A k \in 1..Len(lastHook.loaders) : Loads(lastHook.loaders[k])
   /\ \E k \in 1..Len(lastHook.loaders) : Unconfigured(lastHook.loaders[k]))
    => /\ lastHook.threw = "none"
       /\ lastHook.done = <<NoError>>
       /\ \A k \in 1..Len(lastHook.loaders) :
            Unconfigured(lastHook.loaders[k]) => ~Registered(lastHook.loaders[k])

\* C6: an emit hook that finds the deferred record of its instance's
\* configured name calls emitDeferred exactly once: that of the loader
\* registered under the name, with the compilation object of the build and
\* the options of the instance; it calls nothing of a loader without
\* emitDeferred.
C6_EmitCallsOnceWithOptions ==
  \A inst \in Instances :
    emits[inst] # Null =>
      /\ Len(emits[inst].calls) = 1
      /\ emits[inst].calls[1].compilation = compilation
      /\ emits[inst].calls[1].options = Options(inst).options
      /\ Require(emits[inst].calls[1].fnc.file).emitDeferred
      /\ \E k \in 1..Len(registryLoaders) :
           /\ registryLoaders[k].name = Options(inst).loader
           /\ registryLoaders[k].fnc = emits[inst].calls[1].fnc
           /\ PropName(ObjGet(resolverLoaders, registryLoaders[k].path))
                = Options(inst).loader

C6_Witness ==
  /\ lastHook.hook = "emit"
  /\ lastHook.inst = "A"
  /\ emits["A"] # Null
  /\ emits["A"].calls[1].fnc.file = "foo.js"
  /\ Registered(Path("foo.js", ""))
  /\ Registered(Path("bar.js", ""))

\* C7: the registry never holds two records of one path, a record once
\* registered stays where and what it is, and an after-resolve hook whose
\* data.loaders are all registered already leaves the registry as it was.
C7_OneRecordPerPath ==
  [][/\ \A j, k \in 1..Len(registryLoaders') :
          registryLoaders'[j].path = registryLoaders'[k].path => j = k
     /\ Len(registryLoaders') >= Len(registryLoaders)
     /\ SubSeq(registryLoaders', 1, Len(registryLoaders)) = registryLoaders
     /\ (/\ lastHook'.hook = "after-resolve"
         /\ \A k \in 1..Len(lastHook'.loaders) : Registered(lastHook'.loaders[k]))
          => registryLoaders' = registryLoaders]_vars

C7_Witness ==
  /\ lastHook.hook = "after-resolve"
  /\ lastHook.done = <<NoError>>
  /\ Len(lastHook.loaders) = 2
  /\ lastHook.loaders[1] = lastHook.loaders[2]
  /\ Registered(lastHook.loaders[1])
  /\ Len(registryLoaders) >= 2

\* C8: when the completion signal of an emitDeferred (the first call of the
\* callback it was given) carries an error, the continuation of the emit
\* hook is called with that error and is not called without an error.
C8_EmitErrorPropagates ==
  \A inst \in Instances :
    (/\ emits[inst] # Null
     /\ emits[inst].signals # <<>>
     /\ emits[inst].signals[1] \in Errors)
      => emits[inst].done = <<emits[inst].signals[1]>>

C8_Witness ==
  /\ lastHook.hook = "emit-callback"
  /\ emits["A"] # Null
  /\ emits["A"].signals = <<"E2">>
  /\ lastHook.done = <<"E2">>

\* C9: the continuation of an emit hook is not called while the
\* emitDeferred the hook invoked has not called its callback: neither by
\* the hook itself nor later.
C9_EmitWaitsForSignal ==
  /\ lastHook.hook = "emit" => lastHook.done = <<>>
  /\ \A inst \in Instances :
       (emits[inst] # Null /\ emits[inst].signals = <<>>)
         => emits[inst].done = <<>> /\ emits[inst].promise = "pending"

C9_Witness ==
  /\ lastHook.hook = "emit"
  /\ emits["A"] # Null
  /\ emits["A"].signals = <<>>
  /\ emits["A"].calls # <<>>

\* C10: a loader module without emitDeferred is only ever registered as
\* {path, isDeferredLoader: false}, and an after-resolve hook that reaches
\* done registers it so for whichever instance, the one configured for the
\* loader's name included.
C10_NoEmitDeferredNotCapable ==
  /\ \A k \in 1..Len(registryLoaders) :
       ~Capable(registryLoaders[k].path) =>
         /\ registryLoaders[k].isDeferredLoader = FALSE
         /\ registryLoaders[k].name = Undefined
         /\ registryLoaders[k].fnc = Undefined
         /\ registryLoaders[k].options = Undefined
  /\ (lastHook.hook = "after-resolve" /\ lastHook.done = <<NoError>>) =>
       \A k \in 1..Len(lastHook.loaders) :
         ~Capable(lastHook.loaders[k]) => Registered(lastHook.loaders[k])

C10_Witness ==
  /\ lastHook.hook = "after-resolve"
  /\ lastHook.inst = "B"
  /\ lastHook.done = <<NoError>>
  /\ InSeq(Path("bar.js", ""), lastHook.loaders)
  /\ PropName(ObjGet(resolverLoaders, Path("bar.js", ""))) = Options("B").loader
  /\ registryLoaders[1].path = Path("bar.js", "")
  /\ registryLoaders[1].isDeferredLoader = FALSE

\* C11: the continuation of a before-resolve hook is called when the
\* resolver has answered for the declared name: with the resolver's error
\* and nothing else when the resolver reported one, with (null, data) when
\* it reported a path.
C11_ResolveErrorPropagates ==
  lastHook.hook = "resolver-callback" =>
    LET answer == ResolverResolve(lastHook.context, Options(lastHook.inst).loader)
    IN IF answer.error # NoError
       THEN lastHook.done = <<answer.error>>
       ELSE lastHook.done = <<NoError>>

C11_Witness ==
  /\ lastHook.hook = "resolver-callback"
  /\ lastHook.inst = "B"
  /\ lastHook.context = "ctx2"
  /\ lastHook.done = <<"ModuleNotFound">>
  /\ declares = {}

\* C12: resolveName of a path no declareLoaders has bound raises an error
\* and returns no name, and the hook in which it does so leaves the
\* bindings of the resolver as they were.
C12_ResolveNameUnbound ==
  [][/\ \A path \in Paths :
          ~Bound(path) =>
            /\ resolveName(resolverLoaders, path).threw # "none"
            /\ resolveName(resolverLoaders, path).value = Undefined
     /\ (lastHook'.hook = "after-resolve" /\ lastHook'.threw = "TypeError")
          => resolverLoaders' = resolverLoaders]_vars

C12_Witness ==
  /\ lastHook.hook = "after-resolve"
  /\ lastHook.threw = "TypeError"
  /\ resolverLoaders # <<>>
  /\ \E k \in 1..Len(lastHook.loaders) :
       Capable(lastHook.loaders[k]) /\ ~Bound(lastHook.loaders[k])

\* C13: an emit hook calls the emitDeferred of every deferred record
\* registered under its instance's configured name, also when there is
\* more than one such record.
C13_EmitCallsEveryRecord ==
  \A inst \in Instances :
    emits[inst] # Null =>
      \A k \in 1..Len(registryLoaders) :
        (/\ registryLoaders[k].isDeferredLoader
         /\ registryLoaders[k].name = Options(inst).loader)
          => \E c \in 1..Len(emits[inst].calls) :
               emits[inst].calls[c].fnc = registryLoaders[k].fnc

\* C14: when a before-resolve hook has called done(null, data), every
\* loader name of the module's loader chain is bound to a path in the
\* resolver.
C14_ChainNamesDeclared ==
  (lastHook.hook \in {"before-resolve", "resolver-callback"}
     /\ lastHook.done = <<NoError>>)
    => \A k \in 1..Len(lastHook.request) : Declared(lastHook.request[k])

\* C15: an after-resolve hook that comes to a loader module that fails to
\* load calls its continuation with the error of the load, raises nothing
\* itself and registers no record for the failing path.
C15_LoadFailureToContinuation ==
  (/\ lastHook.hook = "after-resolve"
   /\ \E k \in 1..Len(lastHook.loaders) :
        /\ ~Loads(lastHook.loaders[k])
        /\ \A j \in 1..(k - 1) :
             Loads(lastHook.loaders[j]) /\ ~Capable(lastHook.loaders[j]))
    => /\ lastHook.done = <<"LoadError">>
       /\ lastHook.threw = "none"
       /\ \A k \in 1..Len(lastHook.loaders) :
            ~Loads(lastHook.loaders[k]) => ~Registered(lastHook.loaders[k])

\* C16: a resolver callback that leaves its declareLoaders call rejected or
\* still pending writes no binding; the first rejection is passed on with
\* the resolver's error, and a call once rejected stays rejected and
\* passes nothing on any more.
C16_FailedDeclareStoresNothing ==
  [][lastHook'.hook = "resolver-callback" =>
       /\ lastHook'.all # "fulfilled" => resolverLoaders' = resolverLoaders
       /\ (lastHook'.was = "pending" /\ lastHook'.all = "rejected")
            => Len(lastHook'.done) = 1 /\ lastHook'.done[1] \notin {NoError}
       /\ lastHook'.was = "rejected"
            => lastHook'.all = "rejected" /\ lastHook'.done = <<>>]_vars

C16_Witness ==
  /\ lastHook.hook = "resolver-callback"
  /\ lastHook.names = <<Str("foo"), Str("bar")>>
  /\ lastHook.context = "ctx2"
  /\ lastHook.was = "rejected"
  /\ lastHook.all = "rejected"
  /\ declares = {}
  /\ ~Bound(Path("foo_alt.js", ""))

\* C17: once resolveName returns a name for a path, it returns the same
\* name for that path after every later declareLoaders call.
C17_BindingImmutable ==
  [][\A path \in Paths :
       resolveName(resolverLoaders, path).threw = "none"
         => resolveName(resolverLoaders', path) = resolveName(resolverLoaders, path)]_vars

\* C18: the options function of a loader is called only for a registered
\* deferred record whose module has one, with the options of the instance
\* configured for the record's name; at every moment it has been called
\* exactly once for each such record, so the call is made with the
\* registration and before any emit hook calls the loader's emitDeferred.
C18_OptionsCalledOnceAtRegistration ==
  /\ \A j \in 1..Len(optionsCalls) :
       /\ optionsCalls[j].fnc.options
       /\ optionsCalls[j].fnc.emitDeferred
       /\ \E k \in 1..Len(registryLoaders), inst \in Instances :
            /\ registryLoaders[k].isDeferredLoader
            /\ registryLoaders[k].fnc = optionsCalls[j].fnc
            /\ registryLoaders[k].name = Options(inst).loader
            /\ optionsCalls[j].options = Options(inst).options
  /\ \A k \in 1..Len(registryLoaders) :
       (registryLoaders[k].isDeferredLoader /\ registryLoaders[k].fnc.options)
         => Cardinality({j \in 1..Len(optionsCalls) :
                           optionsCalls[j].fnc = registryLoaders[k].fnc}) = 1
  /\ \A inst \in Instances :
       emits[inst] # Null =>
         \A c \in 1..Len(emits[inst].calls) :
           emits[inst].calls[c].fnc.options
             => \E j \in 1..Len(optionsCalls) :
                  optionsCalls[j].fnc = emits[inst].calls[c].fnc

C18_Witness ==
  /\ Len(optionsCalls) = 1
  /\ optionsCalls[1].fnc.file = "foo.js"
  /\ optionsCalls[1].options = Opt("optA")
  /\ Registered(Path("foo_alt.js", ""))
  /\ Registered(Path("bar.js", ""))
  /\ emits["A"] # Null
  /\ emits["A"].calls[1].fnc.file = "foo.js"

\* a path the registry holds a checked, non-deferred record for
MarkedNonCapable(registry, path) ==
  /\ getLoaderByPath(registry, path) # Undefined
  /\ ~getLoaderByPath(registry, path).isDeferredLoader

\* C19: an after-resolve hook that loads a module without emitDeferred
\* registers a non-deferred record for its path and loads it once; from then
\* on no after-resolve hook of any instance hands that path to
\* tryAndParseLoader, and no step removes or replaces its record.
C19_NonCapableMarkedForGood ==
  [][/\ lastHook'.hook = "after-resolve" =>
          \A j \in 1..Len(lastHook'.loaded) :
            /\ ~MarkedNonCapable(registryLoaders, lastHook'.loaded[j])
            /\ (Loads(lastHook'.loaded[j]) /\ ~Capable(lastHook'.loaded[j]))
                 => /\ MarkedNonCapable(registryLoaders', lastHook'.loaded[j])
                    /\ \A i \in 1..Len(lastHook'.loaded) :
                         lastHook'.loaded[i] = lastHook'.loaded[j] => i = j
     /\ \A k \in 1..Len(registryLoaders) :
          ~registryLoaders[k].isDeferredLoader
            => /\ Len(registryLoaders') >= k
               /\ registryLoaders'[k] = registryLoaders[k]
               /\ getLoaderByPath(registryLoaders', registryLoaders[k].path)
                    = getLoaderByPath(registryLoaders, registryLoaders[k].path)]_vars

C19_Witness ==
  /\ lastHook.hook = "after-resolve"
  /\ lastHook.inst = "A"
  /\ lastHook.loaders = <<Path("bar.js", ""), Path("foo.js", "")>>
  /\ lastHook.threw = "none"
  /\ lastHook.loaded = <<Path("foo.js", "")>>
  /\ MarkedNonCapable(registryLoaders, Path("bar.js", ""))
  /\ registryLoaders[1].path = Path("bar.js", "")

====
